---- MODULE Spec2Model ----
(***************************************************************************)
(* A model of the exported operations of shengji-wasm                      *)
(* (frontend/shengji-wasm/src/lib.rs): the process-wide zstd decoder and   *)
(* the request/response wrappers around the shengji_core rules engine.     *)
(***************************************************************************)
EXTENDS Integers, Sequences, FiniteSets, TLC

VARIABLES
    decoder,    \* the Option<FrameDecoder> guarded by ZSTD_DECODER: "Some" | "None"
    lock,       \* holder of the ZSTD_DECODER mutex: 0 free, a caller, or Leaked
    poisoned,   \* the mutex's poison flag
    pc,         \* pc[c]: where caller c is inside zstd_decompress
    zreq,       \* zreq[c]: the bytes caller c passed
    zresp,      \* zresp[c]: what caller c's last call returned
    op,         \* the last exported engine operation that was called
    request,    \* its request
    response,   \* its response
    prev        \* the response before it (for a call made on an earlier response)

vars == <<decoder, lock, poisoned, pc, zreq, zresp, op, request, response, prev>>

zvars == <<decoder, lock, poisoned, pc, zreq, zresp>>
evars == <<op, request, response, prev>>

(***************************************************************************)
(* Bounds of the model.                                                    *)
(***************************************************************************)
NumCallers == 2
MaxPayload == 2

Callers == 1..NumCallers

\* Ok(v) / Err(msg) of a Result<JsValue, JsValue>.
Ok(v) == [kind |-> "ok", value |-> v]
Err(m) == [kind |-> "err", msg |-> m]
NoResponse == [kind |-> "none"]

\* F applied to the value of v, which is computed once (a local binding).
Let(v, F(_)) == CHOOSE r \in {F(x) : x \in {v}} : TRUE

(***************************************************************************)
(* zstd_decompress and ZSTD_DECODER.                                       *)
(*                                                                         *)
(* The bytes of a request are classified by what ruzstd and from_utf8 do   *)
(* with them: "bad_header" makes StreamingDecoder::new_with_decoder fail,  *)
(* "bad_body" makes read_to_end fail, "bad_utf8" decodes to bytes that are *)
(* not UTF-8, "valid" decodes to the text numbered by the payload.         *)
(***************************************************************************)
ZKinds == {"valid", "bad_utf8", "bad_header", "bad_body"}
ZRequests == [kind : ZKinds, payload : 1..MaxPayload]
NoZRequest == [kind |-> "none", payload |-> 0]

ZResp(k, p) == [kind |-> k, payload |-> p]
NoZResp == ZResp("none", 0)

\* The mutex is held by a guard that no longer belongs to a running call.
Leaked == -1

\* lazy_static: ZSTD_DECODER starts as Mutex::new(Some(fd)); no call is running
\* and no engine operation has been called.
ZInit ==
    /\ decoder = "Some"
    /\ lock = 0
    /\ poisoned = FALSE
    /\ pc = [c \in Callers |-> "idle"]
    /\ zreq = [c \in Callers |-> NoZRequest]
    /\ zresp = [c \in Callers |-> NoZResp]
    /\ op = "none"
    /\ request = <<>>
    /\ response = NoResponse
    /\ prev = NoResponse

\* The host calls zstd_decompress(req).
ZCall(c, r) ==
    /\ pc[c] \in {"idle", "done", "panicked"}
    /\ pc' = [pc EXCEPT ![c] = "called"]
    /\ zreq' = [zreq EXCEPT ![c] = r]
    /\ zresp' = [zresp EXCEPT ![c] = NoZResp]
    /\ UNCHANGED <<decoder, lock, poisoned, evars>>

\* ZSTD_DECODER.lock().unwrap(): blocks while another call holds the guard; a
\* poisoned mutex gives Err, which unwrap turns into a panic (the guard inside
\* the error is dropped again); a guard leaked by an aborted call makes the
\* single-threaded mutex panic on the second lock.
ZLock(c) ==
    /\ pc[c] = "called"
    /\ \/ /\ lock = 0
          /\ ~poisoned
          /\ lock' = c
          /\ pc' = [pc EXCEPT ![c] = "locked"]
          /\ UNCHANGED zresp
       \/ /\ \/ lock = 0 /\ poisoned
             \/ lock = Leaked
          /\ pc' = [pc EXCEPT ![c] = "panicked"]
          /\ zresp' = [zresp EXCEPT ![c] = ZResp("panic", 0)]
          /\ UNCHANGED lock
    /\ UNCHANGED <<decoder, poisoned, zreq, evars>>

\* frame_decoder.take().unwrap(): leaves None in the slot; on an empty slot the
\* unwrap panics with the guard held. A build that unwinds drops the guard and
\* poisons the mutex; a build that aborts (wasm) never drops it.
ZTake(c) ==
    /\ pc[c] = "locked"
    /\ \/ /\ decoder = "Some"
          /\ decoder' = "None"
          /\ pc' = [pc EXCEPT ![c] = "taken"]
          /\ UNCHANGED <<lock, poisoned, zresp>>
       \/ /\ decoder = "None"
          /\ pc' = [pc EXCEPT ![c] = "panicked"]
          /\ zresp' = [zresp EXCEPT ![c] = ZResp("panic", 0)]
          /\ \/ lock' = 0 /\ poisoned' = TRUE
             \/ lock' = Leaked /\ UNCHANGED poisoned
          /\ UNCHANGED decoder
    /\ UNCHANGED <<zreq, evars>>

\* StreamingDecoder::new_with_decoder(..).map_err(..)?: on Err the function
\* returns, dropping the guard; the decoder that was taken is dropped with it.
ZConstruct(c) ==
    /\ pc[c] = "taken"
    /\ IF zreq[c].kind = "bad_header"
       THEN /\ pc' = [pc EXCEPT ![c] = "done"]
            /\ zresp' = [zresp EXCEPT ![c] = ZResp("Failed to construct decoder", 0)]
            /\ lock' = 0
       ELSE /\ pc' = [pc EXCEPT ![c] = "constructed"]
            /\ UNCHANGED <<zresp, lock>>
    /\ UNCHANGED <<decoder, poisoned, zreq, evars>>

\* decoder.read_to_end(&mut v).map_err(..)?, then on success
\* *frame_decoder = Some(decoder.inner()); drop(frame_decoder).
ZRead(c) ==
    /\ pc[c] = "constructed"
    /\ IF zreq[c].kind = "bad_body"
       THEN /\ pc' = [pc EXCEPT ![c] = "done"]
            /\ zresp' = [zresp EXCEPT ![c] = ZResp("Failed to decode data", 0)]
            /\ UNCHANGED decoder
       ELSE /\ pc' = [pc EXCEPT ![c] = "restored"]
            /\ decoder' = "Some"
            /\ UNCHANGED zresp
    /\ lock' = 0
    /\ UNCHANGED <<poisoned, zreq, evars>>

\* Ok(String::from_utf8(v).map_err(..)?), after the guard was dropped.
ZParse(c) ==
    /\ pc[c] = "restored"
    /\ pc' = [pc EXCEPT ![c] = "done"]
    /\ zresp' = [zresp EXCEPT ![c] =
                    IF zreq[c].kind = "bad_utf8"
                    THEN ZResp("Failed to parse utf-8", 0)
                    ELSE ZResp("ok", zreq[c].payload)]
    /\ UNCHANGED <<decoder, lock, poisoned, zreq, evars>>

\* What zstd_decompress answers to r in a process that has made no call yet.
FreshZResponse(r) ==
    CASE r.kind = "bad_header" -> ZResp("Failed to construct decoder", 0)
      [] r.kind = "bad_body" -> ZResp("Failed to decode data", 0)
      [] r.kind = "bad_utf8" -> ZResp("Failed to parse utf-8", 0)
      [] OTHER -> ZResp("ok", r.payload)

ZNext ==
    \E c \in Callers :
        \/ \E r \in ZRequests : ZCall(c, r)
        \/ ZLock(c)
        \/ ZTake(c)
        \/ ZConstruct(c)
        \/ ZRead(c)
        \/ ZParse(c)

SpecZstd == ZInit /\ [][ZNext]_vars

(***************************************************************************)
(* Cards and trump (shengji_core::types, outside this crate).              *)
(***************************************************************************)
MaxRank == 4
MaxCards == 3

Suits == {"Hearts", "Spades"}
Ranks == 2..MaxRank
SmallJoker == [suit |-> "Joker", number |-> 0]
BigJoker == [suit |-> "Joker", number |-> 1]
SuitedCards == [suit : Suits, number : Ranks]
Cards == SuitedCards \cup {SmallJoker, BigJoker}

\* Trump::Standard { suit, number } and Trump::NoTrump { number: Option }
\* (number 0 stands for None).
Trumps ==
    [kind : {"Standard"}, suit : Suits, number : Ranks]
        \cup [kind : {"NoTrump"}, suit : {"None"}, number : Ranks \cup {0}]

\* Trump::effective_suit: trump cards collapse into one synthetic suit.
EffectiveSuit(trump, card) ==
    IF \/ card.suit = "Joker"
       \/ card.number = trump.number
       \/ card.suit = trump.suit
    THEN "Trump"
    ELSE card.suit

SuitIndex(suit) ==
    CASE suit = "Hearts" -> 1
      [] suit = "Spades" -> 2
      [] suit = "Trump" -> 3
      [] OTHER -> 0

\* How strong a card is inside its effective suit: plain cards by number, then
\* the trump-number cards off the trump suit, the trump-number card of the
\* trump suit, the small joker, the big joker.
Strength(trump, card) ==
    CASE card = BigJoker -> MaxRank + 4
      [] card = SmallJoker -> MaxRank + 3
      [] card.number = trump.number /\ card.suit = trump.suit -> MaxRank + 2
      [] card.number = trump.number -> MaxRank + 1
      [] OTHER -> card.number

SortKey(trump, card) ==
    <<SuitIndex(EffectiveSuit(trump, card)), Strength(trump, card), SuitIndex(card.suit)>>

KeyLess(k1, k2) ==
    \/ k1[1] < k2[1]
    \/ k1[1] = k2[1] /\ k1[2] < k2[2]
    \/ k1[1] = k2[1] /\ k1[2] = k2[2] /\ k1[3] < k2[3]

\* Trump::compare: a strict total order on distinct cards.
Compare(trump, a, b) ==
    IF KeyLess(SortKey(trump, a), SortKey(trump, b)) THEN "Less"
    ELSE IF KeyLess(SortKey(trump, b), SortKey(trump, a)) THEN "Greater"
    ELSE "Equal"

RECURSIVE SeqsUpTo(_, _)
\* The sequences over S of length at most n.
SeqsUpTo(S, n) ==
    IF n = 0 THEN {<<>>}
    ELSE LET shorter == SeqsUpTo(S, n - 1)
         IN shorter \cup {Append(s, x) : s \in {t \in shorter : Len(t) = n - 1}, x \in S}

CardLists == SeqsUpTo(Cards, MaxCards)

\* req.into_serde(): a request value that does not have the shape of the
\* request struct gives Err.
Malformed == [malformed |-> TRUE]
IntoSerde(req) == IF req.malformed THEN Err("malformed") ELSE Ok(req)

(***************************************************************************)
(* sort_and_group_cards.                                                   *)
(***************************************************************************)
\* slice::sort_by is stable: c goes behind every element that is not Greater.
InsertSorted(trump, s, c) ==
    LET keep == {i \in 1..Len(s) : Compare(trump, s[i], c) # "Greater"}
        n == IF keep = {} THEN 0 ELSE CHOOSE i \in keep : \A j \in keep : j <= i
    IN SubSeq(s, 1, n) \o <<c>> \o SubSeq(s, n + 1, Len(s))

RECURSIVE SortBy(_, _)
\* cards.sort_by(|a, b| trump.compare(*a, *b))
SortBy(trump, cards) ==
    IF cards = <<>> THEN <<>>
    ELSE Let(SortBy(trump, SubSeq(cards, 1, Len(cards) - 1)),
             LAMBDA sorted : InsertSorted(trump, sorted, cards[Len(cards)]))

\* A plausible slip: every card opens a group of its own.
PushCardNoMerge(results, suit, card) ==
    Append(results, [suit |-> suit, cards |-> <<card>>])

\* A plausible slip: a new group starts empty, losing the card that opened it.
PushCardDropFirst(results, suit, card) ==
    IF results # <<>> /\ results[Len(results)].suit = suit
    THEN [results EXCEPT ![Len(results)].cards = Append(@, card)]
    ELSE Append(results, [suit |-> suit, cards |-> <<>>])

\* The body of the loop: extend the last group when it has the card's suit,
\* open a new group otherwise.
PushCard(results, suit, card) ==
    IF results # <<>> /\ results[Len(results)].suit = suit
    THEN [results EXCEPT ![Len(results)].cards = Append(@, card)]
    ELSE Append(results, [suit |-> suit, cards |-> <<card>>])

RECURSIVE GroupCards(_, _, _)
\* for card in cards { ... }
GroupCards(trump, cards, results) ==
    IF cards = <<>> THEN results
    ELSE Let(PushCard(results, EffectiveSuit(trump, Head(cards)), Head(cards)),
             LAMBDA pushed : GroupCards(trump, Tail(cards), pushed))

sort_and_group_cards(req) ==
    LET de == IntoSerde(req)
    IN IF de.kind = "err" THEN de
       ELSE Let(SortBy(req.trump, req.cards),
                LAMBDA cards : Ok(GroupCards(req.trump, cards, <<>>)))

RECURSIVE ConcatGroups(_)
\* The cards of a response, group after group.
ConcatGroups(groups) ==
    IF groups = <<>> THEN <<>>
    ELSE Head(groups).cards \o ConcatGroups(Tail(groups))

SortRequest(trump, cards) == [trump |-> trump, malformed |-> FALSE, cards |-> cards]
SortRequests == {SortRequest(trump, cards) : trump \in Trumps, cards \in CardLists}

\* The host is about to call sort_and_group_cards with some request.
SortInit ==
    /\ decoder = "Some"
    /\ lock = 0
    /\ poisoned = FALSE
    /\ pc = [c \in Callers |-> "idle"]
    /\ zreq = [c \in Callers |-> NoZRequest]
    /\ zresp = [c \in Callers |-> NoZResp]
    /\ op = "none"
    /\ request \in SortRequests \cup {Malformed}
    /\ response = NoResponse
    /\ prev = NoResponse

\* The host calls sort_and_group_cards.
SortCall ==
    /\ op = "none"
    /\ op' = "sort_and_group_cards"
    /\ response' = sort_and_group_cards(request)
    /\ UNCHANGED <<request, prev, zvars>>

\* The host calls sort_and_group_cards again, on the cards of the response it
\* just got, with the same trump.
SortAgain ==
    /\ op = "sort_and_group_cards"
    /\ response.kind = "ok"
    /\ op' = "sort_and_group_cards again"
    /\ request' = SortRequest(request.trump, ConcatGroups(response.value))
    /\ response' = sort_and_group_cards(request')
    /\ prev' = response
    /\ UNCHANGED zvars

SortNext == SortCall \/ SortAgain

SpecSort == SortInit /\ [][SortNext]_vars

\* The number of times card c occurs in the sequence s.
Count(s, c) == Cardinality({i \in 1..Len(s) : s[i] = c})
SameCards(s, t) == \A c \in Cards : Count(s, c) = Count(t, c)
IsSorted(trump, s) ==
    \A i \in 1..Len(s) : \A j \in 1..Len(s) :
        i < j => Compare(trump, s[i], s[j]) # "Greater"

\* C4: sort_and_group_cards is idempotent: called on the cards of its own
\* output (in group order) with the same trump, it returns the same groups.
C4_SortIdempotent ==
    op = "sort_and_group_cards again" => response = prev

C4_Witness ==
    /\ op = "sort_and_group_cards again"
    /\ Len(response.value) >= 2
    /\ \E i \in 1..Len(response.value) : Len(response.value[i].cards) >= 2

\* C5: in every response of sort_and_group_cards no two consecutive groups have
\* the same suit, every group is non-empty, every card of a group has the
\* group's suit as its effective suit, and the groups' cards, concatenated, are
\* the request's cards sorted by trump.compare.
C5_GroupsMerged ==
    (op = "sort_and_group_cards" /\ response.kind = "ok") =>
        LET groups == response.value
        IN /\ \A i \in 1..Len(groups) - 1 : groups[i].suit # groups[i + 1].suit
           /\ \A i \in 1..Len(groups) :
                /\ groups[i].cards # <<>>
                /\ \A k \in 1..Len(groups[i].cards) :
                     EffectiveSuit(request.trump, groups[i].cards[k]) = groups[i].suit
           /\ SameCards(ConcatGroups(groups), request.cards)
           /\ IsSorted(request.trump, ConcatGroups(groups))

C5_Witness ==
    /\ op = "sort_and_group_cards"
    /\ response.kind = "ok"
    /\ Len(request.cards) = 3
    /\ Len(response.value) = 2
    /\ request.cards # ConcatGroups(response.value)

(***************************************************************************)
(* explain_scoring (the scoring engine is shengji_core::scoring, outside   *)
(* this crate).                                                            *)
(***************************************************************************)
MaxDecks == 2
MaxStepPerDeck == 4

\* A deck is the point cards it holds: the four 5s, 10s and kings of a
\* standard deck, each rank present or removed.
DeckKinds == [fives : {0, 4}, tens : {0, 4}, kings : {0, 4}]

\* Deck::points: 5 for a five, 10 for a ten or a king.
DeckPoints(d) == 5 * d.fives + 10 * d.tens + 10 * d.kings

DeckLists == SeqsUpTo(DeckKinds, MaxDecks)

\* GameScoringParameters: the step size per deck, in units of 5 points.
ScoringParams == [step_size_per_deck : {5 * k : k \in 0..MaxStepPerDeck}]

\* GameScoringParameters::step_size: fails when no step size can be produced.
StepSize(params, decks) ==
    IF params.step_size_per_deck * Len(decks) = 0
    THEN Err("step size")
    ELSE Ok(params.step_size_per_deck * Len(decks))

RECURSIVE SumPoints(_)
SumPoints(decks) ==
    IF decks = <<>> THEN 0 ELSE DeckPoints(Head(decks)) + SumPoints(Tail(decks))

\* A plausible slip: only the first deck is counted.
TotalPointsFirstDeck(decks) ==
    IF decks = <<>> THEN 0 ELSE DeckPoints(Head(decks))

\* decks.iter().map(|d| d.points() as isize).sum::<isize>()
TotalPoints(decks) == SumPoints(decks)

\* compute_level_deltas at a point total: the non-landlord team wins from two
\* steps on, one level more per further step; below, the landlord team wins
\* one level more per step missed, three on a shutout, and one more when its
\* team is the smaller one.
ComputeLevelDeltas(step, pts, smaller) ==
    LET k == pts \div step
        bonus == IF smaller THEN 1 ELSE 0
    IN IF k >= 2
       THEN [landlord_won |-> FALSE, landlord_delta |-> 0, non_landlord_delta |-> k - 2]
       ELSE [landlord_won |-> TRUE,
             landlord_delta |-> (IF pts = 0 THEN 3 ELSE 2 - k) + bonus,
             non_landlord_delta |-> 0]

\* explain_level_deltas: compute_level_deltas at every multiple of the step
\* size from 0 up to the points of the decks in play, in increasing order.
ExplainLevelDeltas(params, decks, smaller) ==
    LET step == StepSize(params, decks)
    IN IF step.kind = "err" THEN step
       ELSE Ok([i \in 1..(SumPoints(decks) \div step.value) + 1 |->
                    <<(i - 1) * step.value,
                      ComputeLevelDeltas(step.value, (i - 1) * step.value, smaller)>>])

\* A plausible slip: the segments come out in reverse order.
ScoreSegmentsReversed(deltas) ==
    [i \in 1..Len(deltas) |->
        [point_threshold |-> deltas[Len(deltas) + 1 - i][1],
         results |-> deltas[Len(deltas) + 1 - i][2]]]

\* deltas.into_iter().map(|(pts, res)| ScoreSegment { .. }).collect()
ScoreSegments(deltas) ==
    [i \in 1..Len(deltas) |-> [point_threshold |-> deltas[i][1], results |-> deltas[i][2]]]

explain_scoring(req) ==
    LET de == IntoSerde(req)
    IN IF de.kind = "err" THEN de
       ELSE LET deltas == ExplainLevelDeltas(req.params, req.decks,
                                             req.smaller_landlord_team_size)
                step == StepSize(req.params, req.decks)
            IN IF deltas.kind = "err" THEN Err("Failed to explain scores")
               ELSE IF step.kind = "err" THEN Err("Failed to compute step size")
               ELSE Ok([results |-> ScoreSegments(deltas.value),
                        total_points |-> TotalPoints(req.decks),
                        step_size |-> step.value])

ExplainRequests ==
    [malformed : {FALSE}, decks : DeckLists, params : ScoringParams,
     smaller_landlord_team_size : BOOLEAN]

\* The host is about to call explain_scoring with some request.
ScoreInit ==
    /\ decoder = "Some"
    /\ lock = 0
    /\ poisoned = FALSE
    /\ pc = [c \in Callers |-> "idle"]
    /\ zreq = [c \in Callers |-> NoZRequest]
    /\ zresp = [c \in Callers |-> NoZResp]
    /\ op = "none"
    /\ request \in ExplainRequests \cup {Malformed}
    /\ response = NoResponse
    /\ prev = NoResponse

\* The host calls explain_scoring.
ExplainCall ==
    /\ op = "none"
    /\ op' = "explain_scoring"
    /\ response' = explain_scoring(request)
    /\ UNCHANGED <<request, prev, zvars>>

ScoreNext == ExplainCall

SpecScore == ScoreInit /\ [][ScoreNext]_vars

\* C9: in every successful explain_scoring response the point thresholds are
\* strictly increasing in response order, consecutive thresholds differ by a
\* multiple of the returned step_size, the last threshold is at most the
\* returned total_points, total_points is the sum of the decks' points,
\* step_size is params.step_size(decks), and the order is the one produced by
\* explain_level_deltas.
C9_ThresholdsIncreasing ==
    (op = "explain_scoring" /\ response.kind = "ok") =>
        LET r == response.value
            n == Len(r.results)
            deltas == ExplainLevelDeltas(request.params, request.decks,
                                         request.smaller_landlord_team_size).value
        IN /\ \A i \in 1..n - 1 :
                /\ r.results[i].point_threshold < r.results[i + 1].point_threshold
                /\ (r.results[i + 1].point_threshold - r.results[i].point_threshold)
                        % r.step_size = 0
           /\ n > 0 => r.results[n].point_threshold <= r.total_points
           /\ r.total_points = SumPoints(request.decks)
           /\ r.step_size = StepSize(request.params, request.decks).value
           /\ n = Len(deltas)
           /\ \A i \in 1..n : r.results[i].point_threshold = deltas[i][1]

C9_Witness ==
    /\ op = "explain_scoring"
    /\ response.kind = "ok"
    /\ Len(request.decks) = 2
    /\ request.decks[1] # request.decks[2]
    /\ Len(response.value.results) >= 3
    /\ response.value.results[Len(response.value.results)].point_threshold
            < response.value.total_points

(***************************************************************************)
(* find_valid_bids (the bidding engine is shengji_core::bidding, outside   *)
(* this crate).                                                            *)
(***************************************************************************)
MaxBids == 1
NumDecks == 2

\* The cards a bid is made with, weakest trump first.
BidCards == <<[suit |-> "Hearts", number |-> 2], [suit |-> "Spades", number |-> 2], SmallJoker>>
BidCardIndex(card) == CHOOSE i \in 1..Len(BidCards) : BidCards[i] = card

\* The player asking is 1; 2 is another player at the table; 3 has no hand.
BidPlayers == {1, 2}
BidIds == {1, 3}
Bids == [id : BidPlayers, card : {BidCards[i] : i \in 1..Len(BidCards)},
         count : 1..NumDecks, epoch : {0, 1}]
BidHistories == SeqsUpTo(Bids, MaxBids)

\* hands[player][i]: how many copies of BidCards[i] the player holds.
BidHands == {[p \in BidPlayers |-> IF p = 1 THEN h ELSE <<1, 1, 1>>] :
                h \in [1..Len(BidCards) -> 0..NumDecks]}

BidPolicies == {"JokerOrHigherSuit", "GreaterLength"}
BidReinforcementPolicies == {"ReinforceWhileWinning", "ReinforceWhileEquivalent"}
JokerBidPolicies == {"BothTwoOrMore", "Disabled"}

FindValidBidsRequests ==
    [malformed : {FALSE}, id : BidIds, bids : BidHistories, hands : BidHands,
     landlord : {0, 2}, epoch : {1}, bid_policy : BidPolicies,
     bid_reinforcement_policy : BidReinforcementPolicies,
     joker_bid_policy : JokerBidPolicies, num_decks : {NumDecks}]

\* The bids of the history that count: those of the current epoch.
LiveBids(req) == {i \in 1..Len(req.bids) : req.bids[i].epoch = req.epoch}

\* Bid b strictly dominates bid a: more cards, or (where the policy lets a
\* higher suit overturn) as many cards of a higher-ranked suit.
Dominates(policy, b, a) ==
    \/ b.count > a.count
    \/ /\ policy = "JokerOrHigherSuit"
       /\ b.count = a.count
       /\ BidCardIndex(b.card) > BidCardIndex(a.card)

\* The candidate strengthens a bid the player made before: same card, more of
\* it. Closed once the landlord is fixed.
Reinforces(req, b) ==
    /\ req.bid_reinforcement_policy = "ReinforceWhileEquivalent"
    /\ req.landlord = 0
    /\ \E i \in LiveBids(req) :
          /\ req.bids[i].id = b.id
          /\ req.bids[i].card = b.card
          /\ req.bids[i].count < b.count
    /\ \A i \in LiveBids(req) : req.bids[i].count <= b.count

JokerAllowed(req, b) ==
    b.card.suit = "Joker" =>
        /\ req.joker_bid_policy = "BothTwoOrMore"
        /\ b.count >= 2

\* A candidate bid is legal: the player holds the cards, jokers are allowed,
\* and it dominates every live bid or reinforces the player's own.
LegalBid(req, b) ==
    /\ b.id = req.id
    /\ b.epoch = req.epoch
    /\ b.count <= req.hands[req.id][BidCardIndex(b.card)]
    /\ b.count <= req.num_decks
    /\ JokerAllowed(req, b)
    /\ \/ \A i \in LiveBids(req) : Dominates(req.bid_policy, b, req.bids[i])
       \/ Reinforces(req, b)

RECURSIVE BidsInOrder(_, _, _)
\* The legal candidates, by card and then by count.
BidsInOrder(req, i, k) ==
    IF i > Len(BidCards) THEN <<>>
    ELSE IF k > NumDecks THEN BidsInOrder(req, i + 1, 1)
    ELSE LET b == [id |-> req.id, card |-> BidCards[i], count |-> k, epoch |-> req.epoch]
         IN (IF LegalBid(req, b) THEN <<b>> ELSE <<>>) \o BidsInOrder(req, i, k + 1)

\* Bid::valid_bids: fails for a player who has no hand.
ValidBids(req) ==
    IF req.id \notin DOMAIN req.hands THEN Err("unknown player")
    ELSE Ok(BidsInOrder(req, 1, 1))

\* A plausible slip: the engine's failure is propagated with `?`.
find_valid_bids_propagating(req) ==
    LET de == IntoSerde(req)
    IN IF de.kind = "err" THEN Err("Failed to deserialize phase")
       ELSE IF ValidBids(req).kind = "err" THEN Err("Failed to find valid bids")
       ELSE Ok([results |-> ValidBids(req).value])

\* Bid::valid_bids(..).unwrap_or_default() inside FindValidBidsResult.
find_valid_bids(req) ==
    LET de == IntoSerde(req)
    IN IF de.kind = "err" THEN Err("Failed to deserialize phase")
       ELSE Ok([results |-> IF ValidBids(req).kind = "err" THEN <<>>
                            ELSE ValidBids(req).value])

\* The host is about to call find_valid_bids with some request.
BidInit ==
    /\ decoder = "Some"
    /\ lock = 0
    /\ poisoned = FALSE
    /\ pc = [c \in Callers |-> "idle"]
    /\ zreq = [c \in Callers |-> NoZRequest]
    /\ zresp = [c \in Callers |-> NoZResp]
    /\ op = "none"
    /\ request \in FindValidBidsRequests \cup {Malformed}
    /\ response = NoResponse
    /\ prev = NoResponse

\* The host calls find_valid_bids.
FindValidBidsCall ==
    /\ op = "none"
    /\ op' = "find_valid_bids"
    /\ response' = find_valid_bids(request)
    /\ UNCHANGED <<request, prev, zvars>>

BidNext == FindValidBidsCall

SpecBid == BidInit /\ [][BidNext]_vars

\* C2 (as claimed): find_valid_bids never responds with an error: for every
\* request the response is a results list.
C2_NeverAnError ==
    op = "find_valid_bids" => response.kind = "ok"

\* No candidate bid of the request's player is legal.
NoLegalBid(req) ==
    \A i \in 1..Len(BidCards), k \in 1..NumDecks :
        ~LegalBid(req, [id |-> req.id, card |-> BidCards[i], count |-> k,
                        epoch |-> req.epoch])

\* C2 (amended): for every request that deserializes, find_valid_bids answers
\* a results list, which is empty when the bidding engine fails or no bid is
\* legal; only a request that does not deserialize is answered with an error.
C2_NoErrorOnceDeserialized ==
    op = "find_valid_bids" =>
        IF request.malformed
        THEN response.kind = "err"
        ELSE /\ response.kind = "ok"
             /\ (request.id \notin DOMAIN request.hands \/ NoLegalBid(request))
                    => response.value.results = <<>>
             /\ (request.id \in DOMAIN request.hands /\ ~NoLegalBid(request))
                    => response.value.results # <<>>

C2_Witness ==
    /\ op = "find_valid_bids"
    /\ ~request.malformed
    /\ request.id \notin DOMAIN request.hands
    /\ request.bids # <<>>
    /\ response.kind = "ok"
    /\ response.value.results = <<>>

(***************************************************************************)
(* Units, trick formats and the play checks (shengji_core::trick, outside  *)
(* this crate).                                                            *)
(***************************************************************************)
MaxHand == 4

\* UnitLike::Repeated { count } and UnitLike::Tractor { count, length }.
Single == [kind |-> "Repeated", count |-> 1, length |-> 1]
Pair == [kind |-> "Repeated", count |-> 2, length |-> 1]
Tractor == [kind |-> "Tractor", count |-> 2, length |-> 2]

RECURSIVE FormatSize(_)
\* The number of cards a sequence of unit shapes takes.
FormatSize(units) ==
    IF units = <<>> THEN 0
    ELSE Head(units).count * Head(units).length + FormatSize(Tail(units))

\* UnitLike::multi_description: a label for a sequence of shapes.
Describe(u) ==
    CASE u.kind = "Tractor" -> "tractor"
      [] u.count = 1 -> "single"
      [] OTHER -> "tuple"
MultiDescription(units) == [i \in 1..Len(units) |-> Describe(units[i])]

TrickDrawPolicies == {"NoProtections", "LongerTuplesProtected", "OnlyDrawTractorOnTractor"}

RECURSIVE Singles(_)
Singles(n) == IF n = 0 THEN <<>> ELSE <<Single>> \o Singles(n - 1)

\* The ways one shape may be followed, the shape itself first, single cards
\* last. Only a permissive policy lets independent tuples match a tractor.
UnitBreakdowns(u, policy) ==
    CASE u.kind = "Tractor" ->
            <<<<u>>>>
                \o (IF policy = "OnlyDrawTractorOnTractor" THEN <<>>
                    ELSE <<[i \in 1..u.length |->
                                [kind |-> "Repeated", count |-> u.count, length |-> 1]]>>)
                \o <<Singles(u.count * u.length)>>
      [] u.count > 1 -> <<<<u>>, Singles(u.count)>>
      [] OTHER -> <<<<u>>>>

RECURSIVE Decomposition(_, _)
\* TrickFormat::decomposition: every ordered breakdown of the format's units
\* that the draw policy permits.
Decomposition(units, policy) ==
    IF units = <<>> THEN <<<<>>>>
    ELSE LET first == UnitBreakdowns(Head(units), policy)
             rest == Decomposition(Tail(units), policy)
         IN [k \in 1..Len(first) * Len(rest) |->
                first[((k - 1) \div Len(rest)) + 1] \o rest[((k - 1) % Len(rest)) + 1]]

\* Two cards are neighbours in rank: same effective suit, and no card of that
\* suit is ranked strictly between them.
Adjacent(trump, a, b) ==
    /\ EffectiveSuit(trump, a) = EffectiveSuit(trump, b)
    /\ Strength(trump, a) < Strength(trump, b)
    /\ \A x \in Cards :
          EffectiveSuit(trump, x) = EffectiveSuit(trump, a) =>
              ~(Strength(trump, a) < Strength(trump, x)
                    /\ Strength(trump, x) < Strength(trump, b))

\* The distinct cards of a list, in trump order.
Distinct(trump, cards) ==
    Let(SortBy(trump, cards),
        LAMBDA sorted :
            SelectSeq([i \in 1..Len(sorted) |-> <<i, sorted[i]>>],
                      LAMBDA p : p[1] = 1 \/ sorted[p[1] - 1] # p[2]))

\* A card may fill a place of `count` copies: enough copies are left, and a
\* protected longer tuple is not broken up for a shorter one.
Usable(left, orig, card, count, policy) ==
    /\ Count(left, card) >= count
    /\ (policy = "LongerTuplesProtected" /\ count > 1) => Count(orig, card) = count

\* The concrete units (lists of (card, count)) of the cards left that have the
\* shape u, lowest cards first.
CandidateUnits(trump, left, orig, u, policy) ==
    IF u.kind = "Repeated"
    THEN Let(SelectSeq(Distinct(trump, left),
                       LAMBDA p : Usable(left, orig, p[2], u.count, policy)),
             LAMBDA ok : [i \in 1..Len(ok) |-> <<<<ok[i][2], u.count>>>>])
    ELSE Let(Distinct(trump, left),
             LAMBDA d :
                Let(SelectSeq([k \in 1..Len(d) * Len(d) |->
                                    <<d[((k - 1) \div Len(d)) + 1][2],
                                      d[((k - 1) % Len(d)) + 1][2]>>],
                              LAMBDA q :
                                    /\ Adjacent(trump, q[1], q[2])
                                    /\ Usable(left, orig, q[1], u.count, policy)
                                    /\ Usable(left, orig, q[2], u.count, policy)),
                    LAMBDA ok :
                        [i \in 1..Len(ok) |->
                            <<<<ok[i][1], u.count>>, <<ok[i][2], u.count>>>>]))

RECURSIVE RemoveCopies(_, _, _)
\* The list without n copies of the card.
RemoveCopies(cards, card, n) ==
    IF n = 0 \/ cards = <<>> THEN cards
    ELSE IF Head(cards) = card THEN RemoveCopies(Tail(cards), card, n - 1)
    ELSE <<Head(cards)>> \o RemoveCopies(Tail(cards), card, n)

RECURSIVE RemoveUnit(_, _)
RemoveUnit(cards, unit) ==
    IF unit = <<>> THEN cards
    ELSE Let(RemoveCopies(cards, Head(unit)[1], Head(unit)[2]),
             LAMBDA left : RemoveUnit(left, Tail(unit)))

RECURSIVE MatchShape(_, _, _, _, _)
RECURSIVE MatchWith(_, _, _, _, _, _)
\* Every way to fill the shapes, in order, from the cards left.
MatchShape(trump, left, orig, shape, policy) ==
    IF shape = <<>> THEN <<<<>>>>
    ELSE Let(CandidateUnits(trump, left, orig, Head(shape), policy),
             LAMBDA cands : MatchWith(trump, left, orig, shape, policy, cands))

MatchWith(trump, left, orig, shape, policy, cands) ==
    IF cands = <<>> THEN <<>>
    ELSE Let(<<RemoveUnit(left, Head(cands)), Tail(shape), Tail(cands)>>,
             LAMBDA next :
                Let(MatchShape(trump, next[1], orig, next[2], policy),
                    LAMBDA rest :
                        [i \in 1..Len(rest) |-> <<Head(cands)>> \o rest[i]]
                            \o MatchWith(trump, left, orig, shape, policy, next[3])))

\* UnitLike::check_play: the groupings of the given cards that have the shape.
CheckPlay(trump, cards, shape, policy) ==
    Let(<<cards, shape>>, LAMBDA a : MatchShape(trump, a[1], a[1], a[2], policy))

(***************************************************************************)
(* find_viable_plays (TrickUnit::find_plays is shengji_core, outside this  *)
(* crate).                                                                 *)
(***************************************************************************)
MaxPlayCards == 4

RECURSIVE SetToSeq(_)
\* The elements of a finite set, in some fixed order.
SetToSeq(S) ==
    IF S = {} THEN <<>>
    ELSE LET x == CHOOSE y \in S : TRUE IN <<x>> \o SetToSeq(S \ {x})

\* TractorRequirements: the minimum tractor length, and whether tuples beyond
\* pairs may form tractors.
TractorRequirementsSet == [min_length : {2, 3}, triples_eligible : BOOLEAN]

RECURSIVE Chains(_, _, _)
\* The sequences of n cards of D, each the neighbour in rank of the one before.
Chains(trump, D, n) ==
    IF n = 1 THEN {<<c>> : c \in D}
    ELSE {Append(ch, c) : ch \in Chains(trump, D, n - 1), c \in D}
            \cap {ch \in [1..n -> D] : Adjacent(trump, ch[n - 1], ch[n])}

\* The runs that may be played as one tractor: neighbouring ranks, all held in
\* the same multiplicity of at least two, long enough.
Runs(trump, tr, cards) ==
    LET D == {cards[i] : i \in 1..Len(cards)}
        eligible == {c \in D : Count(cards, c) = 2
                                 \/ (Count(cards, c) > 2 /\ tr.triples_eligible)}
    IN UNION {{ch \in Chains(trump, eligible, n) :
                    \A i \in 1..n : Count(cards, ch[i]) = Count(cards, ch[1])} :
              n \in tr.min_length..Cardinality(D)}

RunCards(run) == {run[i] : i \in 1..Len(run)}

\* The grouping in which the runs of R are played as tractors and every other
\* card with all of its copies.
GroupingOf(cards, R) ==
    LET D == {cards[i] : i \in 1..Len(cards)}
        used == UNION {RunCards(run) : run \in R}
    IN SetToSeq({[kind |-> "Tractor", count |-> Count(cards, run[1]), cards |-> run] :
                    run \in R}
                \cup {[kind |-> "Repeated", count |-> Count(cards, c), cards |-> <<c>>] :
                        c \in D \ used})

\* TrickUnit::find_plays: every grouping of the cards into tuples and tractors;
\* no cards, no grouping.
FindPlays(trump, tr, cards) ==
    IF cards = <<>> THEN <<>>
    ELSE LET runs == Runs(trump, tr, cards)
             choices == {R \in SUBSET runs :
                            \A r1 \in R, r2 \in R :
                                r1 # r2 => RunCards(r1) \cap RunCards(r2) = {}}
         IN [i \in 1..Cardinality(choices) |-> GroupingOf(cards, SetToSeq(choices)[i])]

\* UnitLike::from(&TrickUnit)
UnitLikeFrom(unit) ==
    [kind |-> unit.kind, count |-> unit.count, length |-> Len(unit.cards)]

\* A plausible slip: the first unit of every grouping is lost.
FoundViablePlayDropping(p) ==
    [grouping |-> Tail(p),
     description |-> MultiDescription([i \in 1..Len(p) |-> UnitLikeFrom(p[i])])]

\* FoundViablePlay { grouping: p, description }
FoundViablePlay(p) ==
    [grouping |-> p,
     description |-> MultiDescription([i \in 1..Len(p) |-> UnitLikeFrom(p[i])])]

find_viable_plays(req) ==
    LET de == IntoSerde(req)
    IN IF de.kind = "err" THEN de
       ELSE LET plays == FindPlays(req.trump, req.tractor_requirements, req.cards)
            IN Ok([results |-> [i \in 1..Len(plays) |-> FoundViablePlay(plays[i])]])

PlayTrumps ==
    {[kind |-> "Standard", suit |-> "Spades", number |-> 2],
     [kind |-> "NoTrump", suit |-> "None", number |-> 0]}

\* The cards the requests are made of: the hearts, one spade and a joker.
PlayCards ==
    {c \in SuitedCards : c.suit = "Hearts"}
        \cup {[suit |-> "Spades", number |-> MaxRank], SmallJoker}

FindViablePlaysRequests ==
    [malformed : {FALSE}, trump : PlayTrumps, tractor_requirements : TractorRequirementsSet,
     cards : SeqsUpTo(PlayCards, MaxPlayCards)]

\* The host is about to call find_viable_plays with some request.
PlaysInit ==
    /\ decoder = "Some"
    /\ lock = 0
    /\ poisoned = FALSE
    /\ pc = [c \in Callers |-> "idle"]
    /\ zreq = [c \in Callers |-> NoZRequest]
    /\ zresp = [c \in Callers |-> NoZResp]
    /\ op = "none"
    /\ request \in FindViablePlaysRequests \cup {Malformed}
    /\ response = NoResponse
    /\ prev = NoResponse

\* The host calls find_viable_plays.
FindViablePlaysCall ==
    /\ op = "none"
    /\ op' = "find_viable_plays"
    /\ response' = find_viable_plays(request)
    /\ UNCHANGED <<request, prev, zvars>>

PlaysNext == FindViablePlaysCall

SpecPlays == PlaysInit /\ [][PlaysNext]_vars

RECURSIVE CopiesIn(_, _)
\* How many copies of card c the units of a grouping hold.
CopiesIn(grouping, c) ==
    IF grouping = <<>> THEN 0
    ELSE (IF \E i \in 1..Len(Head(grouping).cards) : Head(grouping).cards[i] = c
          THEN Head(grouping).count ELSE 0) + CopiesIn(Tail(grouping), c)

\* C8: each grouping in the results of find_viable_plays uses exactly the cards
\* of the request (none dropped, none duplicated); the response has one entry
\* per grouping the finder returns; no cards, no results.
C8_GroupingsUseExactlyTheCards ==
    (op = "find_viable_plays" /\ response.kind = "ok") =>
        LET results == response.value.results
        IN /\ \A i \in 1..Len(results) :
                \A c \in Cards : CopiesIn(results[i].grouping, c) = Count(request.cards, c)
           /\ Len(results) = Len(FindPlays(request.trump, request.tractor_requirements,
                                           request.cards))
           /\ request.cards = <<>> => results = <<>>

\* The scenario of two pairs of neighbouring ranks: a tractor of two pairs and
\* two separate pairs are both returned.
C8_Witness ==
    /\ op = "find_viable_plays"
    /\ response.kind = "ok"
    /\ Len(request.cards) = 4
    /\ Len(response.value.results) = 2
    /\ \E i \in 1..2 : Len(response.value.results[i].grouping) = 1
    /\ \E i \in 1..2 : Len(response.value.results[i].grouping) = 2

(***************************************************************************)
(* decompose_trick_format and can_play_cards.                              *)
(***************************************************************************)
\* Hands::get: the hand of a player, or an error for a player without one.
HandsGet(hands, id) ==
    IF id \in DOMAIN hands THEN Ok(hands[id]) ELSE Err("unknown player")

NoFormat == [trump |-> "none", suit |-> "none", units |-> <<>>]

\* The proposed cards are a sub-multiset of the hand.
Holds(hand, cards) == \A c \in Cards : Count(cards, c) <= Count(hand, c)

InSuit(format, cards) ==
    SelectSeq(cards, LAMBDA c : EffectiveSuit(format.trump, c) = format.suit)

\* The cards follow the format: of the led suit, and of the shape of one of
\* its decompositions.
MatchesFormat(format, cards, policy) ==
    /\ InSuit(format, cards) = cards
    /\ \E shape \in {Decomposition(format.units, policy)[i] :
                        i \in 1..Len(Decomposition(format.units, policy))} :
          CheckPlay(format.trump, cards, shape, policy) # <<>>

\* Trick::can_play_cards: the cards are held; a lead is any grouping of cards;
\* a follow has the size of the format and matches it, or, when the hand is
\* short of the led suit, uses up the led suit.
TrickCanPlayCards(trick, id, hands, cards, policy) ==
    LET hand == HandsGet(hands, id)
        format == trick.trick_format
    IN IF hand.kind = "err" THEN hand
       ELSE IF ~Holds(hand.value, cards) THEN Err("insufficient cards")
       ELSE IF format = NoFormat
       THEN IF FindPlays(trick.trump, [min_length |-> 2, triples_eligible |-> TRUE], cards) # <<>>
            THEN Ok(TRUE) ELSE Err("wrong shape")
       ELSE IF Len(cards) # FormatSize(format.units) THEN Err("wrong shape")
       ELSE IF Len(InSuit(format, hand.value)) < FormatSize(format.units)
       THEN IF Len(InSuit(format, cards)) = Len(InSuit(format, hand.value))
            THEN Ok(TRUE) ELSE Err("wrong suit")
       ELSE IF MatchesFormat(format, cards, policy) THEN Ok(TRUE)
       ELSE Err("wrong shape")

\* A plausible slip: the whole hand is offered, not only the led suit.
AvailableCardsUnfiltered(hand, format) == hand

\* Card::cards(hand.iter().filter(|(c, _)| trump.effective_suit(**c) == suit))
AvailableCards(hand, format) == InSuit(format, hand)

RECURSIVE Repeat(_, _)
\* std::iter::repeat(card).take(count)
Repeat(card, count) == IF count = 0 THEN <<>> ELSE <<card>> \o Repeat(card, count - 1)

RECURSIVE FlattenUnitOnce(_)
\* A plausible slip: each card of a unit is listed once, whatever its count.
FlattenUnitOnce(unit) ==
    IF unit = <<>> THEN <<>> ELSE <<Head(unit)[1]>> \o FlattenUnitOnce(Tail(unit))

RECURSIVE RepeatEach(_)
RepeatEach(unit) ==
    IF unit = <<>> THEN <<>>
    ELSE Repeat(Head(unit)[1], Head(unit)[2]) \o RepeatEach(Tail(unit))

\* u.iter().flat_map(|(card, count)| repeat(card.card).take(*count))
FlattenUnit(unit) == RepeatEach(unit)

RECURSIVE FlattenUnits(_)
\* units.iter().flat_map(..).collect()
FlattenUnits(units) ==
    IF units = <<>> THEN <<>> ELSE FlattenUnit(Head(units)) \o FlattenUnits(Tail(units))

\* The entry of one decomposition: its shapes, their description, and the
\* cards of the first grouping check_play finds (none when it finds none).
DecomposedTrickFormat(trick_format, available_cards, format, policy) ==
    Let(CheckPlay(trick_format.trump, available_cards, format, policy),
        LAMBDA playables :
            [format |-> format,
             description |-> MultiDescription(format),
             playable |-> IF playables # <<>> THEN FlattenUnits(Head(playables))
                          ELSE <<>>])

decompose_trick_format(req) ==
    LET de == IntoSerde(req)
    IN IF de.kind = "err" THEN de
       ELSE LET hand == HandsGet(req.hands, req.player_id)
            IN IF hand.kind = "err" THEN hand
               ELSE Let(<<AvailableCards(hand.value, req.trick_format),
                          Decomposition(req.trick_format.units, req.trick_draw_policy)>>,
                        LAMBDA a :
                            Ok([results |->
                                [i \in 1..Len(a[2]) |->
                                    DecomposedTrickFormat(req.trick_format, a[1], a[2][i],
                                                          req.trick_draw_policy)]]))

\* playable: trick.can_play_cards(id, &hands, &cards, trick_draw_policy).is_ok()
can_play_cards(req) ==
    LET de == IntoSerde(req)
    IN IF de.kind = "err" THEN de
       ELSE Ok([playable |->
                    TrickCanPlayCards(req.trick, req.id, req.hands, req.cards,
                                      req.trick_draw_policy).kind = "ok"])

\* The trump of the tricks, and the cards the hands are made of, in a fixed
\* order: two neighbouring hearts, two neighbouring spades (trumps), the heart
\* of the trump number and a joker.
TrickTrump == [kind |-> "Standard", suit |-> "Spades", number |-> 2]
HandCards ==
    <<[suit |-> "Hearts", number |-> MaxRank - 1], [suit |-> "Hearts", number |-> MaxRank],
      [suit |-> "Spades", number |-> MaxRank - 1], [suit |-> "Spades", number |-> MaxRank],
      [suit |-> "Hearts", number |-> 2], SmallJoker>>

\* The hands of at most MaxHand cards, each listed in the order of HandCards.
HandLists ==
    {[i \in 1..Len(s) |-> HandCards[s[i]]] :
        s \in {t \in SeqsUpTo(1..Len(HandCards), MaxHand) :
                    \A i \in 1..Len(t) - 1 : t[i] <= t[i + 1]}}

FormatUnits == {<<Single>>, <<Pair>>, <<Single, Single>>, <<Tractor>>, <<Pair, Single>>}
TrickFormats == [trump : {TrickTrump}, suit : {"Hearts", "Trump"}, units : FormatUnits]

\* Player 1 has a hand; player 2 has none.
DecomposeRequest(format, hand, id, policy) ==
    [malformed |-> FALSE, trick_format |-> format, hands |-> [p \in {1} |-> hand],
     player_id |-> id, trick_draw_policy |-> policy]

DecomposeRequests ==
    {DecomposeRequest(f, h, 1, pol) :
        f \in TrickFormats, h \in HandLists, pol \in TrickDrawPolicies}
    \cup {DecomposeRequest(f, h, 2, pol) :
            f \in TrickFormats, h \in {t \in HandLists : Len(t) <= 1},
            pol \in TrickDrawPolicies}

CanPlayRequest(format, id, hands, cards, policy) ==
    [malformed |-> FALSE, trick |-> [trick_format |-> format, trump |-> TrickTrump],
     id |-> id, hands |-> hands, cards |-> cards, trick_draw_policy |-> policy]

\* The host is about to call decompose_trick_format with some request.
TrickInit ==
    /\ decoder = "Some"
    /\ lock = 0
    /\ poisoned = FALSE
    /\ pc = [c \in Callers |-> "idle"]
    /\ zreq = [c \in Callers |-> NoZRequest]
    /\ zresp = [c \in Callers |-> NoZResp]
    /\ op = "none"
    /\ request \in DecomposeRequests \cup {Malformed}
    /\ response = NoResponse
    /\ prev = NoResponse

\* The host calls decompose_trick_format.
DecomposeCall ==
    /\ op = "none"
    /\ op' = "decompose_trick_format"
    /\ response' = decompose_trick_format(request)
    /\ UNCHANGED <<request, prev, zvars>>

\* The cards the host may propose: as many of the hand as the format takes,
\* picked by position; none; or a card nobody holds.
Proposals(req) ==
    {<<>>, <<BigJoker>>}
        \cup {[k \in 1..Len(I) |-> req.hands[1][I[k]]] :
                I \in {t \in SeqsUpTo(1..Len(req.hands[1]), FormatSize(req.trick_format.units)) :
                            /\ Len(t) = FormatSize(req.trick_format.units)
                            /\ \A k \in 1..Len(t) - 1 : t[k] < t[k + 1]}}

\* The host calls can_play_cards with the playable cards of one entry of the
\* decomposition, for the same format, hands, player and policy.
CanPlayPlayable ==
    /\ op = "decompose_trick_format"
    /\ response.kind = "ok"
    /\ \E i \in 1..Len(response.value.results) :
          /\ response.value.results[i].playable # <<>>
          /\ request' = CanPlayRequest(request.trick_format, request.player_id,
                                       request.hands, response.value.results[i].playable,
                                       request.trick_draw_policy)
    /\ op' = "can_play_cards of playable"
    /\ response' = can_play_cards(request')
    /\ prev' = response
    /\ UNCHANGED zvars

\* The host calls can_play_cards with some cards, following the format.
CanPlayFollow ==
    /\ op = "decompose_trick_format"
    /\ ~request.malformed
    /\ \E cards \in Proposals(request) :
          request' = CanPlayRequest(request.trick_format, request.player_id,
                                    request.hands, cards, request.trick_draw_policy)
    /\ op' = "can_play_cards"
    /\ response' = can_play_cards(request')
    /\ prev' = response
    /\ UNCHANGED zvars

\* The host calls can_play_cards with some cards, opening the trick.
CanPlayLead ==
    /\ op = "decompose_trick_format"
    /\ ~request.malformed
    /\ \E cards \in Proposals(request) :
          request' = CanPlayRequest(NoFormat, request.player_id, request.hands, cards,
                                    request.trick_draw_policy)
    /\ op' = "can_play_cards"
    /\ response' = can_play_cards(request')
    /\ prev' = response
    /\ UNCHANGED zvars

\* The host calls can_play_cards with a value that is no request.
CanPlayMalformed ==
    /\ op = "decompose_trick_format"
    /\ request.malformed
    /\ op' = "can_play_cards"
    /\ request' = Malformed
    /\ response' = can_play_cards(request')
    /\ prev' = response
    /\ UNCHANGED zvars

TrickNext ==
    \/ DecomposeCall
    \/ CanPlayPlayable
    \/ CanPlayFollow
    \/ CanPlayLead
    \/ CanPlayMalformed

SpecTrick == TrickInit /\ [][TrickNext]_vars

\* The player a request of the current operation names, and the trick format
\* and hands it carries.
RequestPlayer ==
    IF op = "decompose_trick_format" THEN request.player_id ELSE request.id
RequestFormat ==
    IF op = "decompose_trick_format" THEN request.trick_format
    ELSE request.trick.trick_format
UnknownPlayer ==
    /\ op # "none"
    /\ ~request.malformed
    /\ RequestPlayer \notin DOMAIN request.hands

\* C3: for decompose_trick_format and for can_play_cards alike, a request
\* naming a player with no entry in hands is answered by an error value (no
\* results list, no playable flag).
C3_UnknownPlayerIsAnError == UnknownPlayer => response.kind = "err"

\* The decomposition entries whose shape the cards have.
MatchingEntries(results, format, cards, policy) ==
    {i \in 1..Len(results) :
        CheckPlay(format.trump, cards, results[i].format, policy) # <<>>}

\* The request is a follow of a format by a player who holds enough cards of
\* the led suit to have to match it.
FormatMatchingFollow ==
    /\ op = "can_play_cards"
    /\ ~request.malformed
    /\ RequestFormat # NoFormat
    /\ request.id \in DOMAIN request.hands
    /\ Len(InSuit(RequestFormat, request.hands[request.id]))
            >= FormatSize(RequestFormat.units)

RECURSIVE UnitCopies(_, _)
\* How many copies of card c the (card, count) entries of a unit hold.
UnitCopies(unit, c) ==
    IF unit = <<>> THEN 0
    ELSE (IF Head(unit)[1] = c THEN Head(unit)[2] ELSE 0) + UnitCopies(Tail(unit), c)

RECURSIVE GroupingCopies(_, _)
GroupingCopies(units, c) ==
    IF units = <<>> THEN 0
    ELSE UnitCopies(Head(units), c) + GroupingCopies(Tail(units), c)

\* C10: decompose_trick_format returns one entry per decomposition of the
\* format, in decomposition order; the playable list of an entry is empty when
\* check_play finds no grouping of the player's led-suit cards for it, and
\* otherwise holds each card of the first grouping as often as its count; the
\* playable cards are of the led suit and are held by the player.
C10_OneEntryPerDecomposition ==
    (op = "decompose_trick_format" /\ response.kind = "ok") =>
        LET format == request.trick_format
            policy == request.trick_draw_policy
            hand == request.hands[request.player_id]
            decomposition == Decomposition(format.units, policy)
            results == response.value.results
        IN /\ Len(results) = Len(decomposition)
           /\ \A i \in 1..Len(results) :
                LET found == CheckPlay(format.trump, InSuit(format, hand),
                                       decomposition[i], policy)
                    playable == results[i].playable
                IN /\ results[i].format = decomposition[i]
                   /\ found = <<>> => playable = <<>>
                   /\ found # <<>> =>
                        /\ Len(playable) = FormatSize(decomposition[i])
                        /\ \A c \in Cards :
                                Count(playable, c) = GroupingCopies(found[1], c)
                   /\ \A k \in 1..Len(playable) :
                        EffectiveSuit(format.trump, playable[k]) = format.suit
                   /\ Holds(hand, playable)

\* A hand with cards outside the led suit got a decomposition with a playable
\* entry after an entry that is not playable.
C10_Witness ==
    /\ op = "decompose_trick_format"
    /\ response.kind = "ok"
    /\ Len(response.value.results) > 1
    /\ response.value.results[1].playable = <<>>
    /\ response.value.results[Len(response.value.results)].playable # <<>>
    /\ InSuit(request.trick_format, request.hands[request.player_id])
            # request.hands[request.player_id]

\* C1: whenever the ZSTD_DECODER mutex is not held, the guarded slot holds a
\* decoder (Some), so every call that acquires the lock finds one to take.
C1_DecoderPresentWhenUnlocked == lock = 0 => decoder = "Some"

\* C7: the response to a request depends only on that request: a completed
\* zstd_decompress call answers what a fresh process would answer, whatever
\* calls (successful or failed) came before it.
C7_ResponseDependsOnlyOnRequest ==
    \A c \in Callers :
        pc[c] \in {"done", "panicked"} => zresp[c] = FreshZResponse(zreq[c])

====
